---- MODULE Spec2Model ----
(***************************************************************************)
(* Model of jam_g19_colors.py: main() looks for a Logitech G19 among the   *)
(* enumerated HID devices (find_g19), then either lists its reports        *)
(* (inspect_reports) or patches R, G, B into feature report 7 and sends it *)
(* (set_color), and maps the outcome to the process exit status.           *)
(*                                                                         *)
(* The HID library is the environment.  Each call the program makes on it  *)
(* is one step of the model and is appended to the log `calls`; a call     *)
(* that raises is also recorded in `errs`.  Python indices are 0-based, a  *)
(* buffer is a TLA+ sequence, so Python offset i is element i + 1.         *)
(*                                                                         *)
(* A report object found by the search of lines 106-109 counts as true in  *)
(* the test of line 119, and get_raw_data() yields byte values, which      *)
(* bytearray() copies unchanged.  len() of an object is never negative.    *)
(*                                                                         *)
(* Spec         : the calls made inside the try blocks (open,              *)
(*                find_*_reports, get_raw_data, len, send) may raise;      *)
(*                find_all_hid_devices, is_opened and close return         *)
(*                normally.                                                *)
(* SpecAnyError : every library call may raise, also those three, which    *)
(*                no except clause guards.                                 *)
(***************************************************************************)
EXTENDS Integers, Sequences, FiniteSets, TLC

VARIABLES pc, args, devs, g19_device, opened, calls, errs, target_report,
          featIds, raw_status, raw_data, report_size, buffer, allocated,
          sendArg, pending, result, uncaught, exitStatus, listed

vars == <<pc, args, devs, g19_device, opened, calls, errs, target_report,
          featIds, raw_status, raw_data, report_size, buffer, allocated,
          sendArg, pending, result, uncaught, exitStatus, listed>>

(* ------------------------------ constants ------------------------------ *)

LOGITECH_VENDOR_ID == 1133

G19_PRODUCT_ID == 49705

LIGHTING_REPORT_ID == 7

RED_BYTE_INDEX == 1

GREEN_BYTE_INDEX == 2

BLUE_BYTE_INDEX == 3

(* ------------------------------- bounds -------------------------------- *)

MaxDevs == 2

MaxReports == 2

MaxLen == 5

(* Sample values of the inputs. *)
VendorIds == {LOGITECH_VENDOR_ID, 4660}

ProductIds == {G19_PRODUCT_ID, 1}

ColorValues == {0, 128, 255}

SnapshotBytes == {7, 9}

ReportIds == {1, LIGHTING_REPORT_ID}

SeqsUpTo(S, n) == UNION {[1..k -> S] : k \in 0..n}

DeviceLists == SeqsUpTo([vendor_id : VendorIds, product_id : ProductIds], MaxDevs)

ReportIdLists == SeqsUpTo(ReportIds, MaxReports)

Snapshots == SeqsUpTo(SnapshotBytes, MaxLen)

(* ------------------------------- helpers ------------------------------- *)

Count(name) == Cardinality({i \in 1..Len(calls) : calls[i] = name})

Call(name) == calls' = Append(calls, name)

CallRaises(name) == /\ calls' = Append(calls, name)
                    /\ errs' = errs \cup {name}

(* find_g19, line 45: the identifier test. *)
IsG19(device) ==
    device.vendor_id = LOGITECH_VENDOR_ID /\ device.product_id = G19_PRODUCT_ID

LastG19(all_devices) ==
    IF \E i \in 1..Len(all_devices) : IsG19(all_devices[i])
    THEN CHOOSE i \in 1..Len(all_devices) :
            /\ IsG19(all_devices[i])
            /\ \A j \in (i+1)..Len(all_devices) : ~IsG19(all_devices[j])
    ELSE 0

(* find_g19, lines 44-49: index of the first matching device, 0 for None. *)
FirstG19(all_devices) ==
    IF \E i \in 1..Len(all_devices) : IsG19(all_devices[i])
    THEN CHOOSE i \in 1..Len(all_devices) :
            /\ IsG19(all_devices[i])
            /\ \A j \in 1..(i-1) : ~IsG19(all_devices[j])
    ELSE 0

AnyReport(feature_reports) == IF Len(feature_reports) > 0 THEN 1 ELSE 0

(* set_color, lines 106-109: index of the first feature report whose id is
   LIGHTING_REPORT_ID, 0 for None. *)
FindTarget(feature_reports) ==
    IF \E i \in 1..Len(feature_reports) : feature_reports[i] = LIGHTING_REPORT_ID
    THEN CHOOSE i \in 1..Len(feature_reports) :
            /\ feature_reports[i] = LIGHTING_REPORT_ID
            /\ \A j \in 1..(i-1) : feature_reports[j] # LIGHTING_REPORT_ID
    ELSE 0

SizeNotNegative(n) == n >= 0

(* set_color, lines 136 and 151: a declared length is usable when positive. *)
SizeUsable(n) == n > 0

(* set_color, lines 138-139 and 156-160: bytearray(n) with offset 0 set to
   the report id. *)
AllocBuffer(n) == [i \in 1..n |-> IF i = 1 THEN LIGHTING_REPORT_ID ELSE 0]

RedInRange(buf) == RED_BYTE_INDEX < Len(buf)

(* set_color, line 168. *)
OffsetsInRange(buf) ==
    /\ RED_BYTE_INDEX < Len(buf)
    /\ GREEN_BYTE_INDEX < Len(buf)
    /\ BLUE_BYTE_INDEX < Len(buf)

PySet(buf, i, v) == IF i + 1 \in DOMAIN buf THEN [buf EXCEPT ![i + 1] = v] ELSE buf

PatchColorsBGR(buf, r, g, b) ==
    PySet(PySet(PySet(buf, RED_BYTE_INDEX, b), GREEN_BYTE_INDEX, g), BLUE_BYTE_INDEX, r)

(* set_color, lines 172-174. *)
PatchColors(buf, r, g, b) ==
    PySet(PySet(PySet(buf, RED_BYTE_INDEX, r), GREEN_BYTE_INDEX, g), BLUE_BYTE_INDEX, b)

FindCalls == {"find_feature_reports", "find_output_reports", "find_input_reports"}

NeverClose(is_open) == FALSE

(* The guard of the finally blocks, lines 83 and 202. *)
ShouldClose(is_open) == is_open

CaughtExceptSend(fn, call) ==
    \/ fn = "inspect_reports" /\ call \in {"open", "get_raw_data"} \cup FindCalls
    \/ fn = "set_color" /\ call \in {"open", "find_feature_reports"}

CaughtExceptInspectOpen(fn, call) ==
    \/ fn = "inspect_reports" /\ call \in {"get_raw_data"} \cup FindCalls
    \/ fn = "set_color" /\ call \in {"open", "find_feature_reports", "send"}

(* Which raising calls lie inside a try block with an `except Exception`:
   lines 59-81 of inspect_reports and 100-199 of set_color.  find_g19 has
   none, and the calls of the finally blocks are outside the try. *)
Caught(fn, call) ==
    \/ fn = "inspect_reports" /\ call \in {"open", "get_raw_data"} \cup FindCalls
    \/ fn = "set_color" /\ call \in {"open", "find_feature_reports", "send"}

ExitAlwaysZero(success) == 0

(* main, lines 251-256. *)
ExitCode(success) == IF success THEN 0 ELSE 1

SendErrorRetries == "sc_send"

(* set_color, lines 194-200: after a failed send the except clause returns
   False and control goes to the finally block. *)
SendErrorTarget == "sc_is_opened"

(* ------------------------------- Init ---------------------------------- *)

Init ==
    /\ pc = "main_find"
    /\ args \in [r : ColorValues, g : ColorValues, b : ColorValues, inspect : BOOLEAN]
    /\ devs = <<>>
    /\ g19_device = 0
    /\ opened = FALSE
    /\ calls = <<>>
    /\ errs = {}
    /\ target_report = -1
    /\ featIds = <<>>
    /\ raw_status = "none"
    /\ raw_data = <<>>
    /\ report_size = -1
    /\ buffer = <<>>
    /\ allocated = FALSE
    /\ sendArg = <<>>
    /\ pending = "none"
    /\ result = "none"
    /\ uncaught = ""
    /\ exitStatus = -1
    /\ listed = {}

(* An exception reaches main, which has no handler: the interpreter prints
   the traceback and the process ends with status 1. *)
Propagate(call) ==
    /\ uncaught' = call
    /\ exitStatus' = 1
    /\ pc' = "exit"

found == <<devs, g19_device>>

report == <<target_report, featIds, raw_status, raw_data, report_size, buffer,
            allocated, sendArg>>

outcome == <<result, uncaught, exitStatus>>

(* ------------------------------ find_g19 ------------------------------- *)

(* Lines 33-49 and 239: find_all_hid_devices() returns a list, the loop
   returns the first match or None.  No device is opened. *)
FindG19 ==
    /\ pc = "main_find"
    /\ \E all_devices \in DeviceLists :
          /\ devs' = all_devices
          /\ g19_device' = FirstG19(all_devices)
    /\ Call("enumerate")
    /\ pc' = "main_check"
    /\ UNCHANGED <<args, opened, errs, report, pending, outcome, listed>>

(* Line 41 raises: find_g19 has no handler, neither has main. *)
FindG19Raises ==
    /\ pc = "main_find"
    /\ CallRaises("enumerate")
    /\ Propagate("enumerate")
    /\ UNCHANGED <<args, found, opened, report, pending, result, listed>>

(* -------------------------------- main --------------------------------- *)

(* Lines 258-262.  all_devices, a local of find_g19, is gone once main acts
   on the value find_g19 returned. *)
MainNotFound ==
    /\ pc = "main_check"
    /\ g19_device = 0
    /\ exitStatus' = 1
    /\ pc' = "exit"
    /\ devs' = <<>>
    /\ UNCHANGED <<args, g19_device, opened, calls, errs, report, pending, result,
                   uncaught, listed>>

(* Lines 241-245: inspect_reports(g19_device) is entered. *)
MainInspect ==
    /\ pc = "main_check"
    /\ g19_device # 0
    /\ args.inspect
    /\ pc' = "in_open"
    /\ devs' = <<>>
    /\ UNCHANGED <<args, g19_device, opened, calls, errs, report, pending, outcome, listed>>

(* Line 246: sys.exit(0) after inspect_reports returned. *)
MainExitInspect ==
    /\ pc = "main_inspected"
    /\ exitStatus' = 0
    /\ pc' = "exit"
    /\ UNCHANGED <<args, found, opened, calls, errs, report, pending, result,
                   uncaught, listed>>

(* Lines 248-249: set_color(g19_device, r, g, b) is entered. *)
MainSetColor ==
    /\ pc = "main_check"
    /\ g19_device # 0
    /\ ~args.inspect
    /\ pc' = "sc_open"
    /\ devs' = <<>>
    /\ UNCHANGED <<args, g19_device, opened, calls, errs, report, pending, outcome, listed>>

(* Lines 251-256. *)
MainExitSetColor ==
    /\ pc = "main_set"
    /\ exitStatus' = ExitCode(result = "true")
    /\ pc' = "exit"
    /\ UNCHANGED <<args, found, opened, calls, errs, report, pending, result,
                   uncaught, listed>>

(* ------------------------ try / except / finally ----------------------- *)

(* `call` raised inside the try block of `fn`: the except clause turns it
   into the function's normal outcome, otherwise it stays in flight while
   the finally block runs. *)
Raise(fn, call, normal, finallyPc) ==
    /\ CallRaises(call)
    /\ pending' = IF Caught(fn, call) THEN normal ELSE call
    /\ pc' = finallyPc

(* The function ends after its finally block: it returns the pending value,
   or the exception in flight propagates to main. *)
Return(retPc) ==
    IF pending \in {"true", "false", "returned"}
    THEN /\ result' = pending
         /\ pc' = retPc
         /\ UNCHANGED <<uncaught, exitStatus>>
    ELSE /\ result' = "raised"
         /\ Propagate(pending)

(* `if device.is_opened():` of a finally block. *)
IsOpened(closePc, retPc) ==
    /\ Call("is_opened")
    /\ IF ShouldClose(opened)
       THEN pc' = closePc /\ UNCHANGED outcome
       ELSE Return(retPc)
    /\ UNCHANGED <<args, found, opened, errs, report, pending, listed>>

IsOpenedRaises ==
    /\ CallRaises("is_opened")
    /\ result' = "raised"
    /\ Propagate("is_opened")
    /\ UNCHANGED <<args, found, opened, report, pending, listed>>

(* `device.close()` of a finally block. *)
Close(retPc) ==
    /\ Call("close")
    /\ opened' = FALSE
    /\ Return(retPc)
    /\ UNCHANGED <<args, found, errs, report, pending, listed>>

(* close() raises: whether the handle was released is the library's. *)
CloseRaises ==
    /\ CallRaises("close")
    /\ opened' \in BOOLEAN
    /\ result' = "raised"
    /\ Propagate("close")
    /\ UNCHANGED <<args, found, report, pending, listed>>

(* --------------------------- inspect_reports --------------------------- *)

(* Line 60. *)
InspectOpen ==
    /\ pc = "in_open"
    /\ Call("open")
    /\ opened' = TRUE
    /\ pc' = "in_feature"
    /\ UNCHANGED <<args, found, errs, report, pending, outcome, listed>>

InspectOpenRaises ==
    /\ pc = "in_open"
    /\ Raise("inspect_reports", "open", "returned", "in_is_opened")
    /\ UNCHANGED <<args, found, opened, report, outcome, listed>>

InspectKinds == <<"feature", "output", "input">>

InspectPc(k) == IF k <= 3 THEN "in_" \o InspectKinds[k] ELSE "in_is_opened"

(* Lines 64-67, 71-72, 76-77: one kind of report is listed, id and size of
   every report; after the third kind the try block ends (line 78). *)
InspectList ==
    \E k \in 1..3 :
       /\ pc = InspectPc(k)
       /\ Call("find_" \o InspectKinds[k] \o "_reports")
       /\ listed' = listed \cup {InspectKinds[k]}
       /\ pc' = InspectPc(k + 1)
       /\ pending' = IF k = 3 THEN "returned" ELSE pending
       /\ UNCHANGED <<args, found, opened, errs, report, outcome>>

(* find_*_reports() raises while listing. *)
InspectFindRaises ==
    \E k \in 1..3 :
       /\ pc = InspectPc(k)
       /\ Raise("inspect_reports", "find_" \o InspectKinds[k] \o "_reports",
                "returned", "in_is_opened")
       /\ UNCHANGED <<args, found, opened, report, outcome, listed>>

(* A report's get_raw_data() raises while listing. *)
InspectGetRawRaises ==
    \E k \in 1..3 :
       /\ pc = InspectPc(k)
       /\ calls' = calls \o <<"find_" \o InspectKinds[k] \o "_reports", "get_raw_data">>
       /\ errs' = errs \cup {"get_raw_data"}
       /\ pending' = IF Caught("inspect_reports", "get_raw_data")
                     THEN "returned" ELSE "get_raw_data"
       /\ pc' = "in_is_opened"
       /\ UNCHANGED <<args, found, opened, report, outcome, listed>>

(* Lines 82-84. *)
InspectIsOpened ==
    /\ pc = "in_is_opened"
    /\ IsOpened("in_close", "main_inspected")

InspectIsOpenedRaises ==
    /\ pc = "in_is_opened"
    /\ IsOpenedRaises

InspectClose ==
    /\ pc = "in_close"
    /\ Close("main_inspected")

InspectCloseRaises ==
    /\ pc = "in_close"
    /\ CloseRaises

(* ------------------------------ set_color ------------------------------ *)

(* Line 101. *)
SetColorOpen ==
    /\ pc = "sc_open"
    /\ Call("open")
    /\ opened' = TRUE
    /\ pc' = "sc_find"
    /\ UNCHANGED <<args, found, errs, report, pending, outcome, listed>>

SetColorOpenRaises ==
    /\ pc = "sc_open"
    /\ Raise("set_color", "open", "false", "sc_is_opened")
    /\ UNCHANGED <<args, found, opened, report, outcome, listed>>

(* Lines 105-122: the feature reports are searched for LIGHTING_REPORT_ID;
   without one the function returns False. *)
SetColorFind ==
    /\ pc = "sc_find"
    /\ Call("find_feature_reports")
    /\ \E feature_reports \in ReportIdLists :
          /\ featIds' = feature_reports
          /\ target_report' = FindTarget(feature_reports)
          /\ IF FindTarget(feature_reports) = 0
             THEN pending' = "false" /\ pc' = "sc_is_opened"
             ELSE pending' = pending /\ pc' = "sc_get_raw"
    /\ UNCHANGED <<args, found, opened, errs, raw_status, raw_data, report_size,
                   buffer, allocated, sendArg, outcome, listed>>

SetColorFindRaises ==
    /\ pc = "sc_find"
    /\ Raise("set_color", "find_feature_reports", "false", "sc_is_opened")
    /\ UNCHANGED <<args, found, opened, report, outcome, listed>>

(* Lines 131-144: get_raw_data() returns the live snapshot; a non-empty one
   becomes the buffer, an empty one leads to len(target_report). *)
SetColorGetRaw ==
    /\ pc = "sc_get_raw"
    /\ Call("get_raw_data")
    /\ \E snapshot \in Snapshots :
          /\ raw_data' = snapshot
          /\ IF snapshot = <<>>
             THEN raw_status' = "empty" /\ buffer' = buffer /\ pc' = "sc_len"
             ELSE raw_status' = "data" /\ buffer' = snapshot /\ pc' = "sc_patch"
    /\ UNCHANGED <<args, found, opened, errs, target_report, featIds, report_size,
                   allocated, sendArg, pending, outcome, listed>>

(* Lines 146-147: get_raw_data() raises, the inner handler takes over. *)
SetColorGetRawRaises ==
    /\ pc = "sc_get_raw"
    /\ CallRaises("get_raw_data")
    /\ raw_status' = "raised"
    /\ pc' = "sc_len_fallback"
    /\ UNCHANGED <<args, found, opened, target_report, featIds, raw_data, report_size,
                   buffer, allocated, sendArg, pending, outcome, listed>>

(* A declared length was obtained: lines 136-142 and 151-160. *)
Allocate(n) ==
    /\ report_size' = n
    /\ IF SizeUsable(n)
       THEN /\ buffer' = AllocBuffer(n)
            /\ allocated' = TRUE
            /\ pending' = pending
            /\ pc' = "sc_patch"
       ELSE /\ pending' = "false"
            /\ pc' = "sc_is_opened"
            /\ UNCHANGED <<buffer, allocated>>

(* Lines 135-142, inside the inner try. *)
SetColorLen ==
    /\ pc = "sc_len"
    /\ Call("len")
    /\ \E n \in 0..MaxLen : Allocate(n)
    /\ UNCHANGED <<args, found, opened, errs, target_report, featIds, raw_status,
                   raw_data, sendArg, outcome, listed>>

(* Line 135 raises inside the inner try: the handler of line 146 runs. *)
SetColorLenRaises ==
    /\ pc = "sc_len"
    /\ CallRaises("len")
    /\ pc' = "sc_len_fallback"
    /\ UNCHANGED <<args, found, opened, report, pending, outcome, listed>>

(* Lines 149-160, inside the handler. *)
SetColorLenFallback ==
    /\ pc = "sc_len_fallback"
    /\ Call("len")
    /\ \E n \in 0..MaxLen : Allocate(n)
    /\ UNCHANGED <<args, found, opened, errs, target_report, featIds, raw_status,
                   raw_data, sendArg, outcome, listed>>

(* Lines 161-163. *)
SetColorLenFallbackRaises ==
    /\ pc = "sc_len_fallback"
    /\ CallRaises("len")
    /\ pending' = "false"
    /\ pc' = "sc_is_opened"
    /\ UNCHANGED <<args, found, opened, report, outcome, listed>>

(* Lines 168-181. *)
SetColorPatch ==
    /\ pc = "sc_patch"
    /\ IF OffsetsInRange(buffer)
       THEN /\ buffer' = PatchColors(buffer, args.r, args.g, args.b)
            /\ pending' = pending
            /\ pc' = "sc_send"
       ELSE /\ buffer' = buffer
            /\ pending' = "false"
            /\ pc' = "sc_is_opened"
    /\ UNCHANGED <<args, found, opened, calls, errs, target_report, featIds,
                   raw_status, raw_data, report_size, allocated, sendArg, outcome,
                   listed>>

(* Lines 189-192. *)
SetColorSend ==
    /\ pc = "sc_send"
    /\ Call("send")
    /\ sendArg' = buffer
    /\ pending' = "true"
    /\ pc' = "sc_is_opened"
    /\ UNCHANGED <<args, found, opened, errs, target_report, featIds, raw_status,
                   raw_data, report_size, buffer, allocated, outcome, listed>>

(* Line 189 raises: lines 194-199. *)
SetColorSendRaises ==
    /\ pc = "sc_send"
    /\ Raise("set_color", "send", "false", SendErrorTarget)
    /\ sendArg' = buffer
    /\ UNCHANGED <<args, found, opened, target_report, featIds, raw_status,
                   raw_data, report_size, buffer, allocated, outcome, listed>>

(* Lines 200-203. *)
SetColorIsOpened ==
    /\ pc = "sc_is_opened"
    /\ IsOpened("sc_close", "main_set")

SetColorIsOpenedRaises ==
    /\ pc = "sc_is_opened"
    /\ IsOpenedRaises

SetColorClose ==
    /\ pc = "sc_close"
    /\ Close("main_set")

SetColorCloseRaises ==
    /\ pc = "sc_close"
    /\ CloseRaises

(* --------------------------- specifications ---------------------------- *)

Next ==
    \/ FindG19
    \/ MainNotFound
    \/ MainInspect
    \/ MainExitInspect
    \/ MainSetColor
    \/ MainExitSetColor
    \/ InspectOpen
    \/ InspectOpenRaises
    \/ InspectList
    \/ InspectFindRaises
    \/ InspectGetRawRaises
    \/ InspectIsOpened
    \/ InspectClose
    \/ SetColorOpen
    \/ SetColorOpenRaises
    \/ SetColorFind
    \/ SetColorFindRaises
    \/ SetColorGetRaw
    \/ SetColorGetRawRaises
    \/ SetColorLen
    \/ SetColorLenRaises
    \/ SetColorLenFallback
    \/ SetColorLenFallbackRaises
    \/ SetColorPatch
    \/ SetColorSend
    \/ SetColorSendRaises
    \/ SetColorIsOpened
    \/ SetColorClose

Spec == Init /\ [][Next]_vars

NextAnyError ==
    \/ Next
    \/ FindG19Raises
    \/ InspectIsOpenedRaises
    \/ InspectCloseRaises
    \/ SetColorIsOpenedRaises
    \/ SetColorCloseRaises

SpecAnyError == Init /\ [][NextAnyError]_vars

(* ------------------------------- claims -------------------------------- *)

Exited == pc = "exit"

(* The function main called (inspect_reports or set_color) is over. *)
FunctionOver == result # "none"

CleanupCalls == {"is_opened", "close"}

(* The buffer set_color starts from: the live snapshot, or a zeroed buffer
   of the declared length whose offset 0 holds the report id. *)
BaseBuffer ==
    IF raw_status = "data"
    THEN raw_data
    ELSE [i \in 1..report_size |-> IF i = 1 THEN 7 ELSE 0]

BufferResolved == raw_status = "data" \/ allocated

(* What the calls log holds after its only "send". *)
AfterSend ==
    LET at == CHOOSE i \in 1..Len(calls) : calls[i] = "send"
    IN  SubSeq(calls, at + 1, Len(calls))

(* C1, as stated: whenever inspect_reports or set_color is over, on any
   path, close was called exactly once and the device is not open. *)
C1_ClosedExactlyOnce ==
    FunctionOver => Count("close") = 1 /\ ~opened

(* C1, amended: close is called at most once per invocation; when the
   function is over, close was called exactly once if open succeeded and
   is_opened() did not raise, never if open raised; and the device is not
   open unless is_opened() or close() themselves raised. *)
C1_ClosedWhenOpened ==
    /\ Count("open") <= 1
    /\ Count("close") <= 1
    /\ FunctionOver =>
          /\ Count("open") = 1
          /\ ("open" \notin errs /\ "is_opened" \notin errs) => Count("close") = 1
          /\ "open" \in errs => Count("close") = 0 /\ ~opened
          /\ errs \cap CleanupCalls = {} => ~opened

C1_Witness ==
    /\ FunctionOver
    /\ errs = {"find_feature_reports"}
    /\ Count("close") = 1
    /\ ~opened

(* C2: whenever set_color returned true, send was called exactly once and
   its argument is the base buffer (the non-empty live snapshot, or the
   freshly allocated zero buffer of the declared length with offset 0 = 7)
   with exactly offsets 1, 2, 3 replaced by r, g, b. *)
C2_SentBufferIsPatchedBase ==
    result = "true" =>
       /\ Count("send") = 1
       /\ "send" \notin errs
       /\ raw_status = "data" => raw_data # <<>> /\ ~allocated
       /\ raw_status # "data" => allocated /\ report_size > 0
       /\ Len(sendArg) = Len(BaseBuffer)
       /\ \A i \in 1..Len(sendArg) :
             sendArg[i] = CASE i = 2 -> args.r
                            [] i = 3 -> args.g
                            [] i = 4 -> args.b
                            [] OTHER -> BaseBuffer[i]

C2_Witness ==
    /\ result = "true"
    /\ raw_status = "data"
    /\ Len(raw_data) = 5
    /\ raw_data[1] = 9
    /\ args.r # args.b
    /\ sendArg[1] = 9
    /\ sendArg[5] = raw_data[5]

(* C3: once find_feature_reports() returned a list without report id 7,
   set_color never calls send, never searches the output or input reports,
   and returns false without raising. *)
C3_MissingReportReturnsFalse ==
    (target_report # -1 /\ \A i \in 1..Len(featIds) : featIds[i] # 7) =>
       /\ Count("send") = 0
       /\ Count("find_output_reports") = 0
       /\ Count("find_input_reports") = 0
       /\ Count("get_raw_data") = 0
       /\ pc \in {"sc_is_opened", "sc_close", "main_set", "exit"}
       /\ uncaught = ""
       /\ FunctionOver => result = "false"
       /\ Exited => FunctionOver

C3_Witness ==
    /\ featIds = <<1, 1>>
    /\ result = "false"
    /\ Count("find_feature_reports") = 1

(* C4: when offset 1, 2 or 3 is not below the length of the resolved buffer
   (snapshot or fresh buffer of length 1..3), none of r, g, b is written,
   send is never called and set_color returns false. *)
C4_ShortBufferReturnsFalse ==
    (BufferResolved /\ Len(buffer) <= 3) =>
       /\ buffer = BaseBuffer
       /\ Count("send") = 0
       /\ pc # "sc_send"
       /\ uncaught = ""
       /\ FunctionOver => result = "false"
       /\ Exited => FunctionOver

C4_Witness ==
    /\ allocated
    /\ Len(buffer) = 3
    /\ result = "false"

(* C5: when the snapshot came back empty, or its retrieval raised, and the
   declared length is not positive, no buffer is allocated, send is never
   called and set_color returns false. *)
C5_NoSizeReturnsFalse ==
    (raw_status \in {"empty", "raised"} /\ report_size # -1 /\ report_size <= 0) =>
       /\ ~allocated
       /\ buffer = <<>>
       /\ Count("send") = 0
       /\ pc \in {"sc_is_opened", "sc_close", "main_set", "exit"}
       /\ uncaught = ""
       /\ FunctionOver => result = "false"
       /\ Exited => FunctionOver

C5_Witness ==
    /\ raw_status = "raised"
    /\ report_size = 0
    /\ result = "false"

(* C6: with a matched device and --inspect the run always goes on until it
   exits, with status 0, whatever open, the report enumerations or
   get_raw_data did, and nothing of set_color is ever run. *)
C6_InspectExitsZero ==
    (g19_device # 0 /\ args.inspect) =>
       /\ Exited \/ ENABLED Next
       /\ Exited => exitStatus = 0 /\ result = "returned"
       /\ result \in {"none", "returned"}
       /\ target_report = -1 /\ raw_status = "none" /\ ~allocated
       /\ Count("send") = 0 /\ Count("len") = 0
       /\ pc \in {"main_check", "in_open", "in_feature", "in_output", "in_input",
                  "in_is_opened", "in_close", "main_inspected", "exit"}

C6_Witness ==
    /\ Exited
    /\ args.inspect
    /\ exitStatus = 0
    /\ "open" \in errs

(* C7: a run never stops without an exit status; the status is 0 or 1, it
   is 0 exactly when a device was found and inspection was requested or
   set_color returned true, and 1 exactly when no device was found or
   set_color returned false. *)
C7_ExitStatus ==
    /\ exitStatus \in {-1, 0, 1}
    /\ Exited <=> exitStatus # -1
    /\ Exited \/ ENABLED Next
    /\ Exited =>
          /\ exitStatus = 0 <=> (g19_device # 0 /\ (args.inspect \/ result = "true"))
          /\ exitStatus = 1 <=> (g19_device = 0 \/ result = "false")

C7_Witness ==
    /\ Exited
    /\ exitStatus = 1
    /\ target_report = 0
    /\ result = "false"

NoG19(all_devices) ==
    \A i \in 1..Len(all_devices) :
       ~(all_devices[i].vendor_id = 1133 /\ all_devices[i].product_id = 49705)

C8_Returned ==
    /\ pc = "main_check" =>
          /\ calls = <<"enumerate">>
          /\ ~opened
          /\ NoG19(devs) <=> g19_device = 0
          /\ g19_device # 0 =>
                /\ g19_device \in 1..Len(devs)
                /\ ~NoG19(<<devs[g19_device]>>)
                /\ NoG19(SubSeq(devs, 1, g19_device - 1))
    /\ (g19_device = 0 /\ Exited /\ uncaught = "") =>
          exitStatus = 1 /\ calls = <<"enumerate">>

C8_Exits ==
    (pc = "main_check" /\ NoG19(devs)) =>
       (pc' = "exit" /\ exitStatus' = 1 /\ calls' = calls /\ opened' = opened)

(* C8: when find_all_hid_devices() returned, find_g19 has opened nothing
   and returns the first device with vendor 0x046D and product 0xC229 in
   enumeration order, None when there is none; with None the next step of
   the process is to exit with status 1, no open call made on the way. *)
C8_NotFoundExitsWithoutOpen ==
    /\ [](C8_Returned /\ (pc = "main_check" => ENABLED Next))
    /\ [][C8_Exits]_vars

C8_Witness ==
    /\ Exited
    /\ exitStatus = 1
    /\ g19_device = 0
    /\ calls = <<"enumerate">>

(* C9, as stated: whatever library call raises, no exception reaches main,
   and set_color returns false. *)
C9_NothingPropagates ==
    /\ uncaught = ""
    /\ (result \in {"true", "false"} /\ errs # {}) => result = "false"

(* C9, amended: an error of open, find_*_reports, get_raw_data, len or send
   is caught inside inspect_reports / set_color, which then return normally
   unless is_opened() or close() raise in the finally block; set_color
   returns false after an error of open, find_feature_reports or send (after
   an error of get_raw_data or len it may still build a fresh buffer and
   return true).  Only an error of find_all_hid_devices(), is_opened() or
   close() reaches main. *)
C9_OnlyUnguardedCallsPropagate ==
    /\ uncaught \in {"", "enumerate", "is_opened", "close"}
    /\ uncaught # "" => uncaught \in errs /\ Exited /\ exitStatus = 1
    /\ result = "raised" <=> uncaught \in CleanupCalls
    /\ (Exited /\ g19_device # 0 /\ errs \cap CleanupCalls = {}) =>
          result \in {"true", "false", "returned"}
    /\ (result \in {"true", "false"}
          /\ errs \cap {"open", "find_feature_reports", "send"} # {}) =>
          result = "false"

C9_Witness ==
    /\ Exited
    /\ "send" \in errs
    /\ result = "false"
    /\ uncaught = ""

DeviceOperations ==
    {"enumerate", "open", "find_feature_reports", "find_output_reports",
     "find_input_reports", "get_raw_data", "send", "close"}

(* C10: no device operation is made twice in a run, open and send in
   particular at most once; if send raised, set_color returns false, only
   the is_opened() test and the single close follow the failure, and the
   process exits with status 1.  (len(target_report) and is_opened() are
   queries of library objects, not operations on the device: the fallback
   of lines 146-160 evaluates len a second time.) *)
C10_NoRetry ==
    /\ \A name \in DeviceOperations : Count(name) <= 1
    /\ Exited \/ ENABLED Next
    /\ "send" \in errs =>
          /\ AfterSend \in {<<>>, <<"is_opened">>, <<"is_opened", "close">>}
          /\ FunctionOver => result = "false"
          /\ Exited => exitStatus = 1 /\ FunctionOver /\ Count("close") = 1

C10_Witness ==
    /\ Exited
    /\ errs = {"send"}
    /\ AfterSend = <<"is_opened", "close">>
    /\ exitStatus = 1

====
